---- MODULE Spec2Model ----
(***************************************************************************)
(* RedNote-MCP: the extraction workflows of RedNoteTools                   *)
(* (src/src/tools/rednoteTools.ts) and the login state machine of          *)
(* AuthManager (src/src/auth/authManager.ts), as driven by the tool        *)
(* handlers of src/src/cli.ts.                                             *)
(*                                                                         *)
(* Browser processes, browsing contexts and pages are external resources:  *)
(* every operation on them (launch, newPage, goto, waitForSelector,        *)
(* evaluate, click, close) either completes or rejects, and the model      *)
(* draws that outcome with \E.  A handle is an index into the sequence of  *)
(* resources created so far; 0 is the null handle.                         *)
(***************************************************************************)
EXTENDS Integers, Sequences, FiniteSets, TLC

\* ------------------------------------------------------------------ bounds
MaxCalls == 3      \* workflow calls made on the one RedNoteTools instance
MaxFound == 2      \* result items the search page may show
MaxLimit == 3      \* largest limit a caller passes to searchNotes
MaxLogins == 2     \* login tool invocations
MaxOverlapLimit == 1   \* largest limit passed to searchNotes where calls overlap
MaxOverlapCalls == 2   \* workflow calls made where calls overlap
MaxPieces == 3     \* pieces a share text is put together from
MaxGets == 2       \* getBrowser calls made on the one AuthManager
MaxCleanups == 1   \* cleanup calls made on the one AuthManager
MaxManagerLogins == 1  \* login calls made on the one AuthManager

\* --------------------------------------------------------- program constants
maxRetries == 3
DEFAULT_TIMEOUT == 30000
StageCeiling == 10000

VARIABLES
  \* RedNoteTools instance (module-level `tools` of cli.ts)
  tTimeout,     \* RedNoteTools.timeout
  tBrowser,     \* RedNoteTools.browser
  tPage,        \* RedNoteTools.page
  amBrowser,    \* tools.authManager.browser
  call,         \* per in-flight workflow call: its position and locals
  callNo,       \* number of workflow calls started so far
  browsers,     \* browser processes launched by tools.authManager
  pages,        \* pages opened by the RedNoteTools instance
  \* credential store (the cookie file): <<0, 0>> = no cookies,
  \* <<n, c>> = the cookies of context c of the n-th login
  store,
  \* login tool handler and its AuthManager instance
  login,        \* position and locals of the login call
  lBrowser,     \* AuthManager.browser
  lContext,     \* AuthManager.context
  lPage,        \* AuthManager.page
  lBrowsers,    \* browser processes launched by this AuthManager instance
  lContexts,    \* browsing contexts it created
  lPages,       \* pages it opened
  loginNo,      \* number of login tool invocations so far
  manager,      \* getBrowser and cleanup calls in flight on that AuthManager
  \* extractRedBookUrl on its own
  shareText,    \* the argument
  extracted     \* <<>> before the call, <<r>> once it has returned r

vars == <<tTimeout, tBrowser, tPage, amBrowser, call, callNo, browsers, pages,
          store, login, lBrowser, lContext, lPage, lBrowsers, lContexts, lPages, loginNo,
          manager,
          shareText, extracted>>

toolsVars == <<tTimeout, tBrowser, tPage, amBrowser, call, callNo, browsers, pages>>
loginVars == <<login, lBrowser, lContext, lPage, lBrowsers, lContexts, lPages, loginNo,
               manager>>

urlVars == <<shareText, extracted>>

Slots == {1, 2}
Kinds == {"search", "content", "comments"}

Min(a, b) == IF a <= b THEN a ELSE b

\* ------------------------------------------------------- external resources

\* chromium.launch(): one more running browser process.
Launch(bs) == Append(bs, [state |-> "open"])

\* newPage(): one more open page, in browser b and context c (0: the browser's
\* default context), opened by workflow call n (0: by login).
NewPage(ps, b, c, n) ==
  Append(ps, [browser |-> b, context |-> c, state |-> "open", call |-> n])

\* browser.newContext()
NewContext(cs, b) == Append(cs, [browser |-> b, state |-> "open"])

\* browser.close() ends the process and with it every page in it.
BrowsersAfterClose(bs, b) == [bs EXCEPT ![b].state = "closed"]
PagesAfterBrowserClose(ps, b) ==
  [p \in DOMAIN ps |->
     IF ps[p].browser = b THEN [ps[p] EXCEPT !.state = "closed"] ELSE ps[p]]

\* page.close(); closing a closed page changes nothing.
PagesAfterPageClose(ps, p) == [ps EXCEPT ![p].state = "closed"]

\* Variant of ContextsAfterContextClose that leaves the context open.
ContextsLeftOpen(cs, c) == cs

\* context.close() closes the context and its pages.
ContextsAfterContextClose(cs, c) == [cs EXCEPT ![c].state = "closed"]
PagesAfterContextClose(ps, c) ==
  [p \in DOMAIN ps |->
     IF ps[p].context = c THEN [ps[p] EXCEPT !.state = "closed"] ELSE ps[p]]

PageUsable(p) == p # 0 /\ pages[p].state = "open"

\* ----------------------------------------------------------------- characters

\* Texts are sequences of characters: a printable ASCII character stands for
\* itself, any other is written by its escape or by its code point.

\* WhiteSpace of ECMAScript: TAB, VT, FF, ZWNBSP and the space separators
\* (category Zs).
WhiteSpace ==
  {"\t", "U+000B", "\f", "U+FEFF",
   " ", "U+00A0", "U+1680", "U+2000", "U+2001", "U+2002", "U+2003", "U+2004",
   "U+2005", "U+2006", "U+2007", "U+2008", "U+2009", "U+200A", "U+202F", "U+205F",
   "U+3000"}

\* LineTerminator of ECMAScript: LF, CR, LS, PS.
LineTerminator == {"\n", "\r", "U+2028", "U+2029"}

\* \s of a regular expression, and StrWhiteSpaceChar of parseInt: a WhiteSpace
\* or a LineTerminator.
IsSpace(ch) == ch \in WhiteSpace \cup LineTerminator

\* ------------------------------------------------------------- configuration

\* A number: [nan |-> FALSE, val |-> n]; NaN: [nan |-> TRUE, val |-> 0].
NaN == [nan |-> TRUE, val |-> 0]
Number(n) == [nan |-> FALSE, val |-> n]

DigitChars == <<"0", "1", "2", "3", "4", "5", "6", "7", "8", "9">>
Digits == { DigitChars[d] : d \in 1..10 }
IsDigit(ch) == ch \in Digits
DigitValue(ch) == (CHOOSE d \in 1..10 : DigitChars[d] = ch) - 1

\* The value of the digits of t from position j on, up to the first character
\* that is not a digit; acc is the value of the digits read so far.
RECURSIVE LeadingDigits(_, _, _)
LeadingDigits(t, j, acc) ==
  IF j > Len(t) \/ ~IsDigit(t[j]) THEN acc
  ELSE LeadingDigits(t, j + 1, 10 * acc + DigitValue(t[j]))

\* The first position of t from j on that holds no StrWhiteSpaceChar.
RECURSIVE SkipSpace(_, _)
SkipSpace(t, j) ==
  IF j <= Len(t) /\ IsSpace(t[j]) THEN SkipSpace(t, j + 1) ELSE j

\* parseInt(t, 10): leading white space is skipped, a sign is taken, then the
\* digits up to the first character that is none; NaN when there is no digit.
ParseInt(t) ==
  LET j == SkipSpace(t, 1)
      signed == j <= Len(t) /\ t[j] \in {"+", "-"}
      d == IF signed THEN j + 1 ELSE j
  IN IF d > Len(t) \/ ~IsDigit(t[d]) THEN NaN
     ELSE IF signed /\ t[j] = "-" THEN Number(0 - LeadingDigits(t, d, 0))
     ELSE Number(LeadingDigits(t, d, 0))

\* `!isNaN(x) && x > 0`
ValidTimeout(x) == ~x.nan /\ x.val > 0

\* getConfiguredTimeout: env is the text of REDNOTE_TIMEOUT, arg the text after
\* `--timeout=`; <<>> is a variable that is unset (or empty), an option that is
\* not given.
getConfiguredTimeout(env, arg) ==
  IF env # <<>> /\ ValidTimeout(ParseInt(env)) THEN ParseInt(env).val
  ELSE IF ValidTimeout(ParseInt(arg)) THEN ParseInt(arg).val
  ELSE DEFAULT_TIMEOUT

\* Values of REDNOTE_TIMEOUT and of --timeout= the server is started with.
EnvTexts ==
  { <<>>, <<"a", "b", "c">>, <<"0">>, <<"-", "5">>, <<" ">>,
    <<"4", "5", "0", "0", "0">>, <<" ", "4", "5", "0", "0", "0">>,
    <<"+", "4", "5", "0", "0", "0", "m", "s">> }
ArgTexts == { <<>>, <<"2", "0", "0", "0", "0">> }

\* The `timeout` argument of a tool call: <<>> when it is left out, <<n>> for n.
TimeoutArgs == { <<>>, <<5000>> }

\* Handler: `const operationTimeout = timeout || DEFAULT_TIMEOUT`, where
\* `timeout` is the handler's own parameter.
HandlerTimeout(arg) == IF arg = <<>> \/ arg[1] = 0 THEN DEFAULT_TIMEOUT ELSE arg[1]

\* Workflow: `const operationTimeout = timeout || this.timeout`.
OperationTimeout(t, instance) == IF t = 0 THEN instance ELSE t

\* ------------------------------------------------------------ share links

LowerCase == <<"a", "b", "c", "d", "e", "f", "g", "h", "i", "j", "k", "l", "m", "n", "o", "p", "q", "r", "s", "t", "u", "v", "w", "x", "y", "z">>
UpperCase == <<"A", "B", "C", "D", "E", "F", "G", "H", "I", "J", "K", "L", "M", "N", "O", "P", "Q", "R", "S", "T", "U", "V", "W", "X", "Y", "Z">>

\* The `i` flag: letters are compared without regard to case.
LowerOf == [ch \in { UpperCase[k] : k \in 1..26 } |->
              LowerCase[CHOOSE k \in 1..26 : UpperCase[k] = ch]]
ToLower(ch) == IF ch \in DOMAIN LowerOf THEN LowerOf[ch] ELSE ch

Letters == { LowerCase[k] : k \in 1..26 }
IsLetter(ch) == ToLower(ch) \in Letters

\* The character U+FF0C, the full-width comma.
FullWidthComma == "U+FF0C"

\* [a-zA-Z0-9\/]
IsShortPathChar(ch) == IsLetter(ch) \/ IsDigit(ch) \/ ch = "/"

\* [^，\s]
IsCanonicalPathChar(ch) == ch # FullWidthComma /\ ~IsSpace(ch)

\* The two character classes by name.
InClass(class, ch) ==
  IF class = "short" THEN IsShortPathChar(ch) ELSE IsCanonicalPathChar(ch)

\* The literal lit (in lower case) stands in t at position j.
MatchesAt(t, j, lit) ==
  /\ j + Len(lit) - 1 <= Len(t)
  /\ \A k \in 1..Len(lit) : ToLower(t[j + k - 1]) = lit[k]

HttpScheme == <<"h", "t", "t", "p", ":", "/", "/">>
HttpsScheme == <<"h", "t", "t", "p", "s", ":", "/", "/">>
ShortHost == <<"x", "h", "s", "l", "i", "n", "k", ".", "c", "o", "m", "/">>
Www == <<"w", "w", "w", ".">>
CanonicalHost == <<"x", "i", "a", "o", "h", "o", "n", "g", "s", "h", "u", ".", "c", "o", "m", "/">>

\* https?:\/\/ at position j: the position after it, 0 when it does not match.
AfterScheme(t, j) ==
  IF MatchesAt(t, j, HttpsScheme) THEN j + Len(HttpsScheme)
  ELSE IF MatchesAt(t, j, HttpScheme) THEN j + Len(HttpScheme)
  ELSE 0

\* (?:www\.)? at position p: the position after it.
AfterWww(t, p) == IF MatchesAt(t, p, Www) THEN p + Len(Www) ELSE p

\* X+ at position q, greedy: the last position of the run of characters of the
\* class from q on, q - 1 when there is none.
RunEnd(t, q, class) ==
  LET others == { k \in q..Len(t) : ~InClass(class, t[k]) }
  IN IF others = {} THEN Len(t)
     ELSE (CHOOSE k \in others : \A m \in others : k <= m) - 1

\* /(https?:\/\/xhslink\.com\/[a-zA-Z0-9\/]+)/i tried at position j: the last
\* position of the match, 0 when it does not match there.
xhslinkRegexAt(t, j) ==
  LET p == AfterScheme(t, j)
      q == p + Len(ShortHost)
  IN IF p # 0 /\ MatchesAt(t, p, ShortHost) /\ q <= Len(t) /\ RunEnd(t, q, "short") >= q
       THEN RunEnd(t, q, "short")
       ELSE 0

\* /(https?:\/\/(?:www\.)?xiaohongshu\.com\/[^，\s]+)/i tried at position j.
xiaohongshuRegexAt(t, j) ==
  LET p == AfterScheme(t, j)
      h == AfterWww(t, p)
      q == h + Len(CanonicalHost)
  IN IF p # 0 /\ MatchesAt(t, h, CanonicalHost) /\ q <= Len(t)
          /\ RunEnd(t, q, "canonical") >= q
       THEN RunEnd(t, q, "canonical")
       ELSE 0

\* The two patterns by name.
RegexAt(regex, t, j) ==
  IF regex = "xhslinkRegex" THEN xhslinkRegexAt(t, j) ELSE xiaohongshuRegexAt(t, j)

\* shareText.match(regex): group 1 of the leftmost match, <<>> for null.
Match(t, regex) ==
  LET hits == { j \in 1..Len(t) : RegexAt(regex, t, j) # 0 }
  IN IF hits = {} THEN <<>>
     ELSE LET j == CHOOSE x \in hits : \A y \in hits : x <= y
          IN SubSeq(t, j, RegexAt(regex, t, j))

\* Variant of extractRedBookUrl that tries the canonical pattern first.
extractCanonicalFirst(text) ==
  LET xiaohongshuMatch == Match(text, "xiaohongshuRegex")
      xhslinkMatch == Match(text, "xhslinkRegex")
  IN IF xiaohongshuMatch # <<>> THEN xiaohongshuMatch
     ELSE IF xhslinkMatch # <<>> THEN xhslinkMatch
     ELSE text

\* extractRedBookUrl(shareText)
extractRedBookUrl(text) ==
  LET xhslinkMatch == Match(text, "xhslinkRegex")
      xiaohongshuMatch == Match(text, "xiaohongshuRegex")
  IN IF xhslinkMatch # <<>> THEN xhslinkMatch
     ELSE IF xiaohongshuMatch # <<>> THEN xiaohongshuMatch
     ELSE text

\* ------------------------------------------------------------ workflow calls

IdleCall ==
  [pc |-> "idle", kind |-> "none", limit |-> 0, no |-> 0,
   probed |-> FALSE, navigated |-> FALSE, used |-> 0,
   listed |-> FALSE, found |-> 0, i |-> 0, notes |-> <<>>, outs |-> <<>>,
   pending |-> "", res |-> "none", err |-> "", abandoned |-> FALSE,
   arg |-> <<>>, timeout |-> 0, cause |-> "",
   url |-> <<>>, target |-> <<>>, location |-> <<>>, noteUrl |-> <<>>,
   entry |-> "none", closing |-> 0, on |-> 0, itemsOn |-> 0, got |-> ""]

\* The locals of call number n as the handler makes it.
NewCall(n, k, lim, arg, url) ==
  [IdleCall EXCEPT !.pc = "init", !.kind = k, !.limit = lim, !.no = n, !.arg = arg,
                   !.url = url,
                   !.timeout = OperationTimeout(HandlerTimeout(arg), tTimeout)]

\* The call enters initialize: `if (!this.browser)` (rednoteTools.ts 42) and
\* `if (!this.browser)` of getBrowser (authManager.ts 47) are evaluated before
\* anything is awaited.  The body is skipped, or getBrowser returns the handle
\* the AuthManager holds, or chromium.launch is called and awaited.
EntryPath ==
  IF tBrowser # 0 THEN "skip" ELSE IF amBrowser # 0 THEN "held" ELSE "launch"

\* The browser handle the call has in hand as it enters (0: none yet).
HandleAtEntry == IF tBrowser # 0 THEN tBrowser ELSE amBrowser

\* Where the body is skipped initialize returns at once and the guard reads
\* this.page before anything is awaited.
Enter(c) ==
  [c EXCEPT !.entry = EntryPath, !.used = HandleAtEntry,
            !.on = IF EntryPath = "skip" THEN tPage ELSE 0]

InFlight(s) == call[s].pc \notin {"idle", "done"}

\* An exception that leaves the call (no enclosing try of the workflow is left).
Throws(c, e) == [c EXCEPT !.pc = "done", !.res = "threw", !.err = e]
Threw(s, e) == Throws(call[s], e)

\* Leaving the workflow's try block: the finally clause calls cleanup, which
\* reads this.browser and calls close() on it before it awaits; e = "" is a
\* normal return, anything else the exception in flight.
Finally(c, e) == [c EXCEPT !.pc = "cleanup", !.pending = e, !.closing = tBrowser]
ToFinally(s, e) == Finally(call[s], e)

\* The statement of position p finds this.page null: the TypeError is thrown
\* where the statement stands, inside the try/catch that rewrites every error
\* (home page, probe, wait), inside the workflow's try only (list, extract),
\* or outside of any try (addCookies).
NullPage(c, p) ==
  CASE p = "addCookies" -> Throws(c, "addCookiesFailed")
    [] p = "gotoHome"   -> [Throws(c, "initHomeTimeout") EXCEPT !.cause = "error"]
    [] p = "probe"      -> [Throws(c, "verifyLoginTimeout") EXCEPT !.cause = "error"]
    [] p = "wait"       ->
         [Finally(c, IF c.kind = "search" THEN "searchResultsTimeout"
                                          ELSE "commentsTimeout") EXCEPT !.cause = "error"]
    [] p = "list"       -> Finally(c, "listFailed")
    [] OTHER            -> Finally(c, "extractFailed")

\* The call goes on to the statement of position p: `this.page.<operation>` is
\* evaluated now, the operation is pending on the page this.page holds now.
Issue(c, p) == IF tPage = 0 THEN NullPage(c, p) ELSE [c EXCEPT !.pc = p, !.on = tPage]

\* A tool handler calls tools.searchNotes / getNoteContent / getNoteComments.
\* Calls are made one after the other: a call starts when no call is in flight,
\* and takes the first slot.
StartCall(s, k, lim, arg, url) ==
  /\ callNo < MaxCalls
  /\ \A t \in Slots : ~InFlight(t)
  /\ s = 1
  /\ callNo' = callNo + 1
  /\ call' = [call EXCEPT ![s] = Enter(NewCall(callNo + 1, k, lim, arg, url))]
  /\ UNCHANGED <<tBrowser, tPage, amBrowser, browsers, pages, store, tTimeout>>
  /\ UNCHANGED <<loginVars, urlVars>>

\* initialize up to `this.browser = await getBrowser()`: what the call awaited
\* since it entered resolves, and the fields are assigned then.
InitBrowser(s, launchOk) ==
  /\ call[s].pc = "init"
  /\ IF call[s].entry = "skip"
       THEN \* the whole body of initialize was skipped
            /\ launchOk
            /\ call' = [call EXCEPT ![s].pc = "guard"]
            /\ UNCHANGED <<tBrowser, amBrowser, browsers>>
       ELSE IF call[s].entry = "held"
         THEN \* getBrowser returned the handle the AuthManager held
              /\ launchOk
              /\ tBrowser' = call[s].used
              /\ call' = [call EXCEPT ![s].pc = "newPage"]
              /\ UNCHANGED <<amBrowser, browsers>>
         ELSE IF launchOk
           THEN /\ browsers' = Launch(browsers)
                /\ amBrowser' = Len(browsers) + 1
                /\ tBrowser' = Len(browsers) + 1
                /\ call' = [call EXCEPT ![s].pc = "newPage", ![s].used = Len(browsers) + 1]
           ELSE /\ call' = [call EXCEPT ![s] = Threw(s, "launchFailed")]
                /\ UNCHANGED <<tBrowser, amBrowser, browsers>>
  /\ UNCHANGED <<tPage, callNo, pages, store, tTimeout>>
  /\ UNCHANGED <<loginVars, urlVars>>

\* The error of a newPage that rejects: always on a closed browser, and on an
\* open one when the page cannot be created.
NewPageError(b) == IF browsers[b].state = "open" THEN "newPageFailed" ELSE "browserClosed"

\* initialize, `this.page = await this.browser.newPage()`: newPage is called on
\* the handle getBrowser has just returned, this.page is assigned when it
\* resolves.
InitNewPage(s, ok) ==
  /\ call[s].pc = "newPage"
  /\ IF ok /\ browsers[call[s].used].state = "open"
       THEN /\ pages' = NewPage(pages, call[s].used, 0, call[s].no)
            /\ tPage' = Len(pages) + 1
            /\ call' = [call EXCEPT ![s].pc = "cookies"]
       ELSE \* the rejection leaves initialize: this.browser is set, this.page is not
            /\ call' = [call EXCEPT ![s] = Threw(s, NewPageError(call[s].used))]
            /\ UNCHANGED <<tPage, pages>>
  /\ UNCHANGED <<tBrowser, amBrowser, callNo, browsers, store, tTimeout>>
  /\ UNCHANGED <<loginVars, urlVars>>

\* The store holds cookies: `cookies.length > 0`.
HasCookies(st) == st # <<0, 0>>

\* initialize, `await this.authManager.getCookies()` resolves or rejects; it is
\* not inside a try.  With cookies addCookies is called next, else page.goto.
InitCookies(s, ok) ==
  /\ call[s].pc = "cookies"
  /\ call' = [call EXCEPT ![s] =
       IF ok THEN Issue(call[s], IF HasCookies(store) THEN "addCookies" ELSE "gotoHome")
             ELSE Threw(s, "loadCookiesFailed")]
  /\ UNCHANGED <<tBrowser, tPage, amBrowser, callNo, browsers, pages, store, tTimeout>>
  /\ UNCHANGED <<loginVars, urlVars>>

\* initialize, `await this.page.context().addCookies(cookies)` resolves or
\* rejects; it is not inside a try either.
InitAddCookies(s, ok) ==
  /\ call[s].pc = "addCookies"
  /\ call' = [call EXCEPT ![s] =
       IF ok /\ PageUsable(call[s].on) THEN Issue(call[s], "gotoHome")
                                       ELSE Threw(s, "addCookiesFailed")]
  /\ UNCHANGED <<tBrowser, tPage, amBrowser, callNo, browsers, pages, store, tTimeout>>
  /\ UNCHANGED <<loginVars, urlVars>>

\* How a step with a `timeout` option ends: it completes, it exceeds its bound,
\* or it fails for another reason (network error, page or browser gone).
StepOutcomes == {"ok", "timeout", "error"}

\* Why the operation pending on page p did not complete; on a page that is gone
\* it rejects at once.
FailureCause(o, p) == IF o = "timeout" /\ PageUsable(p) THEN "timeout" ELSE "error"

\* initialize, the home page is opened: page.goto inside try/catch.
InitGotoHome(s, o) ==
  /\ call[s].pc = "gotoHome"
  /\ o \in StepOutcomes
  /\ IF o = "ok" /\ PageUsable(call[s].on)
       THEN call' = [call EXCEPT ![s] = Issue(call[s], "probe")]
       ELSE call' = [call EXCEPT ![s] =
                       [Threw(s, "initHomeTimeout") EXCEPT
                          !.cause = FailureCause(o, call[s].on)]]
  /\ UNCHANGED <<tBrowser, tPage, amBrowser, callNo, browsers, pages, store, tTimeout>>
  /\ UNCHANGED <<loginVars, urlVars>>

ProbeOutcomes == {"true", "false", "error"}

\* initialize, the identity probe: page.evaluate, which has no bound, returns
\* true or false or throws.  After true initialize returns and the guard reads
\* this.page.
InitProbe(s, o) ==
  /\ call[s].pc = "probe"
  /\ o \in ProbeOutcomes
  /\ o # "error" => PageUsable(call[s].on)
  /\ call' = [call EXCEPT ![s] =
       CASE o = "true"  -> [call[s] EXCEPT !.pc = "guard", !.probed = TRUE, !.on = tPage]
         [] o = "false" -> Threw(s, "NotLoggedIn")
         [] OTHER       -> [Threw(s, "verifyLoginTimeout") EXCEPT !.cause = "error"]]
  /\ UNCHANGED <<tBrowser, tPage, amBrowser, callNo, browsers, pages, store, tTimeout>>
  /\ UNCHANGED <<loginVars, urlVars>>

\* `if (!this.page) throw new Error('Page not initialized')`, outside the try,
\* for the page read when initialize returned; page.goto is called on it.
Guard(s) ==
  /\ call[s].pc = "guard"
  /\ call' = [call EXCEPT ![s] =
       IF call[s].on = 0 THEN Threw(s, "PageNotInitialized")
                    ELSE [call[s] EXCEPT !.pc = "nav"]]
  /\ UNCHANGED <<tBrowser, tPage, amBrowser, callNo, browsers, pages, store, tTimeout>>
  /\ UNCHANGED <<loginVars, urlVars>>

NavError(k) ==
  CASE k = "search"  -> "searchNavTimeout"
    [] k = "content" -> "openNoteTimeout"
    [] OTHER         -> "openCommentsTimeout"

AfterNav(k) == IF k = "content" THEN "extract" ELSE "wait"

\* The search page and a note page of the site.
SearchPage == HttpsScheme \o Www \o CanonicalHost \o <<"s">>
NotePage == HttpsScheme \o Www \o CanonicalHost \o <<"n">>

\* The `url` argument of get_note_content / get_note_comments: a share text
\* with a short link in it, or the address of a note page.
NoteTexts == { <<"b", " ">> \o HttpScheme \o ShortHost \o <<"a", "1", FullWidthComma>>,
               NotePage }
NoteUrls(k) == IF k = "search" THEN { <<>> } ELSE NoteTexts

\* The address page.goto is given.
NavTarget(c) ==
  CASE c.kind = "search"  -> SearchPage
    [] c.kind = "content" -> extractRedBookUrl(c.url)
    [] OTHER              -> c.url

\* page.goto rejects an address that is not a URL.
Navigable(target) == AfterScheme(target, 1) # 0

\* Where the page is once the navigation is over: at the target, or where the
\* site redirected it; GetNoteDetail reads the page of getNoteContent.
Locations(k, target) == IF k = "content" THEN {target, NotePage} ELSE {target}

\* Every address a call may be at.
Addresses ==
  {SearchPage, NotePage} \cup NoteTexts \cup { extractRedBookUrl(u) : u \in NoteTexts }

\* page.goto of the extraction target: search URL, note URL or comment URL.
Nav(s, o, loc) ==
  /\ call[s].pc = "nav"
  /\ o \in StepOutcomes
  /\ loc \in Locations(call[s].kind, NavTarget(call[s]))
  /\ call' = [call EXCEPT ![s] =
       IF o = "ok" /\ PageUsable(call[s].on) /\ Navigable(NavTarget(call[s]))
         THEN Issue([call[s] EXCEPT !.navigated = TRUE,
                                    !.target = NavTarget(call[s]), !.location = loc],
                    AfterNav(call[s].kind))
         ELSE [ToFinally(s, NavError(call[s].kind)) EXCEPT
                 !.navigated = PageUsable(call[s].on) /\ Navigable(NavTarget(call[s])),
                 !.target = NavTarget(call[s]),
                 !.cause = IF Navigable(NavTarget(call[s]))
                             THEN FailureCause(o, call[s].on) ELSE "error"]]
  /\ UNCHANGED <<tBrowser, tPage, amBrowser, callNo, browsers, pages, store, tTimeout>>
  /\ UNCHANGED <<loginVars, urlVars>>

WaitError(k) == IF k = "search" THEN "searchResultsTimeout" ELSE "commentsTimeout"

AfterWait(k) == IF k = "search" THEN "list" ELSE "extract"

\* waitForSelector of the results container / the comment list.
WaitReady(s, o) ==
  /\ call[s].pc = "wait"
  /\ o \in StepOutcomes
  /\ call' = [call EXCEPT ![s] =
       IF o = "ok" /\ PageUsable(call[s].on)
         THEN Issue(call[s], AfterWait(call[s].kind))
         ELSE [ToFinally(s, WaitError(call[s].kind)) EXCEPT
                 !.cause = FailureCause(o, call[s].on)]]
  /\ UNCHANGED <<tBrowser, tPage, amBrowser, callNo, browsers, pages, store, tTimeout>>
  /\ UNCHANGED <<loginVars, urlVars>>

\* Variant of LoopBound that forgets the number of items found.
LoopBoundLimitOnly(found, limit) == limit

\* Loop bound of the per-item loop: i < Math.min(noteItems.length, limit).
LoopBound(found, limit) == Min(found, limit)

\* page.$$ of the result items: n are found, or it rejects (the page is gone,
\* its execution context was destroyed); the call has no catch of its own.
ListItems(s, ok, n) ==
  /\ call[s].pc = "list"
  /\ n \in 0..MaxFound
  /\ ok \/ n = 0
  /\ call' = [call EXCEPT ![s] =
       IF ~ok \/ ~PageUsable(call[s].on)
         THEN ToFinally(s, "listFailed")
         ELSE IF 0 < LoopBound(n, call[s].limit)
           THEN \* noteItems[0].$eval is called: the items are elements of that page
                [call[s] EXCEPT !.pc = "item", !.listed = TRUE, !.found = n,
                                !.itemsOn = call[s].on]
           ELSE [ToFinally(s, "") EXCEPT !.listed = TRUE, !.found = n]]
  /\ UNCHANGED <<tBrowser, tPage, amBrowser, callNo, browsers, pages, store, tTimeout>>
  /\ UNCHANGED <<loginVars, urlVars>>

\* The try block ends after the evaluate produced `got`, in a throw.
CloseFail(got) == IF got = "note" THEN "noteCloseFail" ELSE "nullCloseFail"

\* The try block of item i is over, o says how: at the first statement that
\* threw, or at its end with what the evaluate produced.
\*   openFail          the click on the cover throws
\*   containerTimeout  the wait for #noteContainer throws
\*   extractFail       the evaluate throws
\*   note / null       the evaluate returns a note / null, the dialog closes
\*   noteCloseFail / nullCloseFail   as before, but the search for the close
\*                     button, the click on it or the wait for the dialog to
\*                     detach throws
TryEnds(c, o) == [c EXCEPT !.outs = Append(c.outs, o), !.got = ""]

\* The finally clause of the per-item loop: randomDelay is awaited, with the
\* exception e in flight ("" for none).
ItemFinally(c, e) == [c EXCEPT !.pc = "delay", !.pending = e]

\* A statement of the try block throws, the block ends as o says: the catch
\* clause calls `this.page.$('.close-circle')` on the page this.page holds
\* now; with this.page null that is a TypeError thrown out of the catch clause.
Catch(c, o) ==
  IF tPage = 0 THEN ItemFinally(TryEnds(c, o), "itemRecoveryFailed")
               ELSE [TryEnds(c, o) EXCEPT !.pc = "recover", !.on = tPage]

\* The try block goes on to the statement of position p, an operation of
\* this.page; with this.page null the TypeError ends the block as o says.
IssueInTry(c, p, o) ==
  IF tPage = 0 THEN Catch(c, o) ELSE [c EXCEPT !.pc = p, !.on = tPage]

\* `noteItems[i].$eval('a.cover.mask.ld', el => el.click())` resolves or
\* rejects; it rejects where the page the items are elements of is gone, and
\* noteItems[i] must be an element.  The wait for #noteContainer is next.
ItemOpen(s, ok) ==
  /\ call[s].pc = "item"
  /\ call' = [call EXCEPT ![s] =
       IF ok /\ PageUsable(call[s].on) /\ call[s].i < call[s].found
         THEN IssueInTry(call[s], "container", "containerTimeout")
         ELSE Catch(call[s], "openFail")]
  /\ UNCHANGED <<tBrowser, tPage, amBrowser, callNo, browsers, pages, store, tTimeout>>
  /\ UNCHANGED <<loginVars, urlVars>>

\* `this.page.waitForSelector('#noteContainer')` resolves or rejects; then
\* randomDelay(0.5, 1.5) is awaited.
ItemContainer(s, ok) ==
  /\ call[s].pc = "container"
  /\ call' = [call EXCEPT ![s] =
       IF ok /\ PageUsable(call[s].on)
         THEN [call[s] EXCEPT !.pc = "loaded"]
         ELSE Catch(call[s], "containerTimeout")]
  /\ UNCHANGED <<tBrowser, tPage, amBrowser, callNo, browsers, pages, store, tTimeout>>
  /\ UNCHANGED <<loginVars, urlVars>>

\* The delay after the note has loaded is over: `this.page.evaluate` is called.
ItemLoaded(s) ==
  /\ call[s].pc = "loaded"
  /\ call' = [call EXCEPT ![s] = IssueInTry(call[s], "evaluate", "extractFail")]
  /\ UNCHANGED <<tBrowser, tPage, amBrowser, callNo, browsers, pages, store, tTimeout>>
  /\ UNCHANGED <<loginVars, urlVars>>

\* What the evaluate of the note gives: a note, null (no #noteContainer in the
\* document), or it throws.
EvaluateOutcomes == {"note", "null", "fail"}

\* Variant of NotePushed that pushes whatever the evaluate returned.
NotePushedUnchecked(o) == o \in {"note", "null"}

\* `if (note) notes.push(note)`
NotePushed(o) == o = "note"

\* `this.page.evaluate(...)` of the note resolves or rejects; the note is
\* pushed, then randomDelay(0.5, 1) is awaited.
ItemEvaluate(s, o) ==
  /\ call[s].pc = "evaluate"
  /\ o \in EvaluateOutcomes
  /\ call' = [call EXCEPT ![s] =
       IF o # "fail" /\ PageUsable(call[s].on)
         THEN [call[s] EXCEPT
                 !.pc = "extracted", !.got = o,
                 !.notes = IF NotePushed(o) THEN Append(call[s].notes, call[s].i + 1)
                                            ELSE call[s].notes]
         ELSE Catch(call[s], "extractFail")]
  /\ UNCHANGED <<tBrowser, tPage, amBrowser, callNo, browsers, pages, store, tTimeout>>
  /\ UNCHANGED <<loginVars, urlVars>>

\* The delay before closing is over: `this.page.$('.close-circle')` is called.
ItemExtracted(s) ==
  /\ call[s].pc = "extracted"
  /\ call' = [call EXCEPT ![s] =
       IssueInTry(call[s], "closeButton", CloseFail(call[s].got))]
  /\ UNCHANGED <<tBrowser, tPage, amBrowser, callNo, browsers, pages, store, tTimeout>>
  /\ UNCHANGED <<loginVars, urlVars>>

\* What the search for the close button gives: null, the button, or it throws.
ButtonOutcomes == {"none", "found", "fail"}

\* `this.page.$('.close-circle')` of the try block resolves or rejects: without
\* a button the block is over, with one `closeButton.click()` is called.
ItemCloseButton(s, o) ==
  /\ call[s].pc = "closeButton"
  /\ o \in ButtonOutcomes
  /\ call' = [call EXCEPT ![s] =
       IF o = "fail" \/ ~PageUsable(call[s].on)
         THEN Catch(call[s], CloseFail(call[s].got))
         ELSE IF o = "found"
           THEN [call[s] EXCEPT !.pc = "closeClick"]
           ELSE ItemFinally(TryEnds(call[s], call[s].got), "")]
  /\ UNCHANGED <<tBrowser, tPage, amBrowser, callNo, browsers, pages, store, tTimeout>>
  /\ UNCHANGED <<loginVars, urlVars>>

\* `closeButton.click()` of the try block resolves or rejects; the wait for the
\* dialog to detach is next.
ItemCloseClick(s, ok) ==
  /\ call[s].pc = "closeClick"
  /\ call' = [call EXCEPT ![s] =
       IF ok /\ PageUsable(call[s].on)
         THEN IssueInTry(call[s], "detach", CloseFail(call[s].got))
         ELSE Catch(call[s], CloseFail(call[s].got))]
  /\ UNCHANGED <<tBrowser, tPage, amBrowser, callNo, browsers, pages, store, tTimeout>>
  /\ UNCHANGED <<loginVars, urlVars>>

\* `this.page.waitForSelector('#noteContainer', {state: 'detached'})` of the
\* try block resolves or rejects.
ItemDetach(s, ok) ==
  /\ call[s].pc = "detach"
  /\ call' = [call EXCEPT ![s] =
       IF ok /\ PageUsable(call[s].on)
         THEN ItemFinally(TryEnds(call[s], call[s].got), "")
         ELSE Catch(call[s], CloseFail(call[s].got))]
  /\ UNCHANGED <<tBrowser, tPage, amBrowser, callNo, browsers, pages, store, tTimeout>>
  /\ UNCHANGED <<loginVars, urlVars>>

\* The catch clause of the per-item loop, none of it guarded:
\* `this.page.$('.close-circle')` resolves or rejects.
ItemRecover(s, o) ==
  /\ call[s].pc = "recover"
  /\ o \in ButtonOutcomes
  /\ call' = [call EXCEPT ![s] =
       IF o = "fail" \/ ~PageUsable(call[s].on)
         THEN ItemFinally(call[s], "itemRecoveryFailed")
         ELSE IF o = "found"
           THEN [call[s] EXCEPT !.pc = "recoverClick"]
           ELSE ItemFinally(call[s], "")]
  /\ UNCHANGED <<tBrowser, tPage, amBrowser, callNo, browsers, pages, store, tTimeout>>
  /\ UNCHANGED <<loginVars, urlVars>>

\* `closeButton.click()` of the catch clause resolves or rejects; the wait for
\* the dialog to detach is called on the page this.page holds then.
ItemRecoverClick(s, ok) ==
  /\ call[s].pc = "recoverClick"
  /\ call' = [call EXCEPT ![s] =
       IF ok /\ PageUsable(call[s].on) /\ tPage # 0
         THEN [call[s] EXCEPT !.pc = "recoverDetach", !.on = tPage]
         ELSE ItemFinally(call[s], "itemRecoveryFailed")]
  /\ UNCHANGED <<tBrowser, tPage, amBrowser, callNo, browsers, pages, store, tTimeout>>
  /\ UNCHANGED <<loginVars, urlVars>>

\* `this.page.waitForSelector('#noteContainer', {state: 'detached'})` of the
\* catch clause resolves or rejects.
ItemRecoverDetach(s, ok) ==
  /\ call[s].pc = "recoverDetach"
  /\ call' = [call EXCEPT ![s] =
       IF ok /\ PageUsable(call[s].on)
         THEN ItemFinally(call[s], "")
         ELSE ItemFinally(call[s], "itemRecoveryFailed")]
  /\ UNCHANGED <<tBrowser, tPage, amBrowser, callNo, browsers, pages, store, tTimeout>>
  /\ UNCHANGED <<loginVars, urlVars>>

\* i++ and the loop test: the cover of the next item is clicked, or the loop is
\* over and searchNotes returns through its finally clause.
NextItem(c) ==
  IF c.i + 1 < LoopBound(c.found, c.limit)
    THEN [c EXCEPT !.i = c.i + 1, !.pc = "item", !.on = c.itemsOn]
    ELSE Finally([c EXCEPT !.i = c.i + 1], "")

\* The randomDelay(0.5, 1.5) of the per-item finally clause is over: the
\* exception in flight leaves the loop, or the loop goes on.
ItemDelay(s) ==
  /\ call[s].pc = "delay"
  /\ call' = [call EXCEPT ![s] =
       IF call[s].pending # "" THEN ToFinally(s, call[s].pending)
                               ELSE NextItem(call[s])]
  /\ UNCHANGED <<tBrowser, tPage, amBrowser, callNo, browsers, pages, store, tTimeout>>
  /\ UNCHANGED <<loginVars, urlVars>>

\* Variant of NoteUrl that keeps the url of the page the note was read from.
NoteUrlOfPage(url, pageUrl) == pageUrl

\* `note.url = url`: the url of the note getNoteContent returns, for the note
\* GetNoteDetail read from the page at pageUrl.
NoteUrl(url, pageUrl) == url

\* GetNoteDetail (getNoteContent) / the evaluate of getNoteComments.
Extract(s, ok) ==
  /\ call[s].pc = "extract"
  /\ call' = [call EXCEPT ![s] =
       IF ok /\ PageUsable(call[s].on)
         THEN [ToFinally(s, "") EXCEPT
                 !.noteUrl = IF call[s].kind = "content"
                               THEN NoteUrl(call[s].url, call[s].location)
                               ELSE <<>>]
         ELSE ToFinally(s, "extractFailed")]
  /\ UNCHANGED <<tBrowser, tPage, amBrowser, callNo, browsers, pages, store, tTimeout>>
  /\ UNCHANGED <<loginVars, urlVars>>

\* The workflow is over once its finally clause has run.
Finished(c) ==
  IF c.pending = "" THEN [c EXCEPT !.pc = "done", !.res = "returned"]
                    ELSE [c EXCEPT !.pc = "done", !.res = "threw", !.err = c.pending]

\* RedNoteTools.cleanup, run by the finally clause of each workflow: the
\* close() it called on the browser it found in this.browser resolves, and the
\* fields are set to null then, whatever they hold.
Cleanup(s, ok) ==
  /\ call[s].pc = "cleanup"
  /\ IF call[s].closing = 0
       THEN \* `if (this.browser)` was false: nothing is closed or assigned
            /\ ok
            /\ call' = [call EXCEPT ![s] = Finished(call[s])]
            /\ UNCHANGED <<tBrowser, tPage, browsers, pages>>
       ELSE IF ok
         THEN /\ browsers' = BrowsersAfterClose(browsers, call[s].closing)
              /\ pages' = PagesAfterBrowserClose(pages, call[s].closing)
              /\ tBrowser' = 0
              /\ tPage' = 0
              /\ call' = [call EXCEPT ![s] = Finished(call[s])]
         ELSE \* browser.close() rejects: the fields keep their handles and the
              \* rejection replaces whatever the try block produced
              /\ call' = [call EXCEPT ![s] = Threw(s, "closeFailed")]
              /\ UNCHANGED <<tBrowser, tPage, browsers, pages>>
  /\ UNCHANGED <<amBrowser, callNo, store, tTimeout>>
  /\ UNCHANGED <<loginVars, urlVars>>

Limits(k) == IF k = "search" THEN 0..MaxLimit ELSE {0}

\* The timer of a tool handler fires while the workflow is in flight: the
\* Promise.race rejects and the handler is over, the workflow promise is left
\* running on `tools`.
TimerFires(s) ==
  /\ InFlight(s)
  /\ ~call[s].abandoned
  /\ callNo < MaxOverlapCalls
  /\ call' = [call EXCEPT ![s].abandoned = TRUE]
  /\ UNCHANGED <<tBrowser, tPage, amBrowser, callNo, browsers, pages, store, tTimeout>>
  /\ UNCHANGED <<loginVars, urlVars>>

\* The next tool call after a handler timed out: every handler before it is
\* over, the workflow it left behind is not.  It runs on the same `tools`.
StartCallAfterTimeout(s, k, lim, arg, url) ==
  /\ callNo < MaxOverlapCalls
  /\ ~InFlight(s)
  /\ \E t \in Slots : InFlight(t)
  /\ \A t \in Slots : InFlight(t) => call[t].abandoned
  /\ callNo' = callNo + 1
  /\ call' = [call EXCEPT ![s] = Enter(NewCall(callNo + 1, k, lim, arg, url))]
  /\ UNCHANGED <<tBrowser, tPage, amBrowser, browsers, pages, store, tTimeout>>
  /\ UNCHANGED <<loginVars, urlVars>>

\* The steps of a call in flight.
WorkflowStep(s) ==
    \/ \E b \in BOOLEAN : InitBrowser(s, b)
    \/ \E b \in BOOLEAN : InitNewPage(s, b)
    \/ \E b \in BOOLEAN : InitCookies(s, b)
    \/ \E b \in BOOLEAN : InitAddCookies(s, b)
    \/ \E o \in StepOutcomes : InitGotoHome(s, o)
    \/ \E o \in ProbeOutcomes : InitProbe(s, o)
    \/ Guard(s)
    \/ \E o \in StepOutcomes : \E loc \in Addresses : Nav(s, o, loc)
    \/ \E o \in StepOutcomes : WaitReady(s, o)
    \/ \E b \in BOOLEAN : \E n \in 0..MaxFound : ListItems(s, b, n)
    \/ \E b \in BOOLEAN : ItemOpen(s, b)
    \/ \E b \in BOOLEAN : ItemContainer(s, b)
    \/ ItemLoaded(s)
    \/ \E o \in EvaluateOutcomes : ItemEvaluate(s, o)
    \/ ItemExtracted(s)
    \/ \E o \in ButtonOutcomes : ItemCloseButton(s, o)
    \/ \E b \in BOOLEAN : ItemCloseClick(s, b)
    \/ \E b \in BOOLEAN : ItemDetach(s, b)
    \/ \E o \in ButtonOutcomes : ItemRecover(s, o)
    \/ \E b \in BOOLEAN : ItemRecoverClick(s, b)
    \/ \E b \in BOOLEAN : ItemRecoverDetach(s, b)
    \/ ItemDelay(s)
    \/ \E b \in BOOLEAN : Extract(s, b)
    \/ \E b \in BOOLEAN : Cleanup(s, b)

NextWorkflow ==
  \E s \in Slots :
    \/ \E k \in Kinds : \E lim \in Limits(k) : \E arg \in TimeoutArgs :
         \E url \in NoteUrls(k) : StartCall(s, k, lim, arg, url)
    \/ WorkflowStep(s)

\* The limits passed to searchNotes where calls overlap.
OverlapLimits(k) == IF k = "search" THEN 0..MaxOverlapLimit ELSE {0}

\* The url passed where calls overlap.
OverlapUrl(k) == IF k = "search" THEN <<>> ELSE NotePage

\* A tool call made while no call is in flight.
StartOverlapCall(s, k, lim) ==
  /\ callNo < MaxOverlapCalls
  /\ StartCall(s, k, lim, <<>>, OverlapUrl(k))

NextOverlap ==
  \E s \in Slots :
    \/ \E k \in Kinds : \E lim \in OverlapLimits(k) : StartOverlapCall(s, k, lim)
    \/ WorkflowStep(s)
    \/ TimerFires(s)
    \/ \E k \in Kinds : \E lim \in OverlapLimits(k) : StartCallAfterTimeout(s, k, lim, <<>>, OverlapUrl(k))

\* ------------------------------------------------------- extractRedBookUrl alone

\* The pieces share texts are put together from.
Pieces ==
  << <<"h", "t", "t", "p", ":", "/", "/", "x", "h", "s", "l", "i", "n", "k", ".", "c", "o", "m", "/", "a", "1">>,
     <<"H", "T", "T", "P", "S", ":", "/", "/", "X", "H", "S", "L", "I", "N", "K", ".", "C", "O", "M", "/">>,
     <<"h", "t", "t", "p", "s", ":", "/", "/", "w", "w", "w", ".", "x", "i", "a", "o", "h", "o", "n", "g", "s", "h", "u", ".", "c", "o", "m", "/", "e", "=">>,
     <<"h", "t", "t", "p", ":", "/", "/", "x", "i", "a", "o", "h", "o", "n", "g", "s", "h", "u", ".", "c", "o", "m", "/">>,
     <<" ">>,
     <<"\r">>,
     <<"U+3000">>,
     <<FullWidthComma>>,
     <<"?">>,
     <<"b">> >>

\* The texts made of n pieces.
RECURSIVE TextsOf(_)
TextsOf(n) ==
  IF n = 0 THEN { <<>> }
  ELSE { t \o Pieces[k] : t \in TextsOf(n - 1), k \in 1..Len(Pieces) }

ShareTexts == UNION { TextsOf(n) : n \in 0..MaxPieces }

\* extractRedBookUrl is applied to the text given.
ExtractUrl ==
  /\ extracted = <<>>
  /\ extracted' = <<extractRedBookUrl(shareText)>>
  /\ UNCHANGED <<shareText, store>>
  /\ UNCHANGED <<toolsVars, loginVars>>

NextExtract == ExtractUrl

\* ------------------------------------------------------------------ login

NoError == [kind |-> "", retries |-> 0, cause |-> ""]
Error(k) == [kind |-> k, retries |-> 0, cause |-> ""]

\* `登录失败，已达到最大重试次数 (${maxRetries}): ${error.message}`
LoginFailed(cause) == [kind |-> "LoginFailed", retries |-> maxRetries, cause |-> cause]

\* pc names the awaited operation that is pending, `on` the browser, context or
\* page it was called on, `cookies` what context.cookies() gave.
IdleLogin ==
  [pc |-> "idle", total |-> 0, retryCount |-> 0, attempts |-> 0, backoffs |-> 0,
   cause |-> "", res |-> "none", err |-> NoError, hres |-> "none", herr |-> NoError,
   probeAt |-> 0, savedAt |-> 0, launched |-> 0, on |-> 0, cookies |-> <<0, 0>>,
   landing |-> "none", prevReplay |-> FALSE, store0 |-> <<0, 0>>,
   navT |-> -1, dialogT |-> -1, qrT |-> -1, humanT |-> -1]

\* Timeout values the callers pass as `total`, in milliseconds.
Totals == {1, 20000, 30000, 60000}

\* Variant of SubWaitThirds without the ceiling.
SubWaitThirdsNoCeiling(total) == total

\* Math.min(10000, timeout / 3).  The division is real-valued, so the value is
\* kept in thirds of a millisecond: SubWaitThirds(t) = 3 * min(10000, t / 3).
SubWaitThirds(total) == Min(3 * StageCeiling, total)

\* The human-paced wait: `timeout: timeout`, in milliseconds.
HumanWait(total) == total

LoginPageUsable(p) == lPages[p].state = "open"
LoginContextUsable(c) == lContexts[c].state = "open"

\* login() has returned or thrown.
LoginReturns(l) == [l EXCEPT !.pc = "finally", !.res = "returned", !.on = 0]
LoginThrows(l, e) == [l EXCEPT !.pc = "finally", !.res = "threw", !.err = e, !.on = 0]

\* `retryCount++`, then the 2 s delay is awaited or, after the last attempt,
\* the terminal error thrown.
AfterCatch(l) ==
  IF l.retryCount + 1 < maxRetries
    THEN [l EXCEPT !.pc = "backoff", !.retryCount = l.retryCount + 1, !.on = 0]
    ELSE LoginThrows([l EXCEPT !.retryCount = l.retryCount + 1], LoginFailed(l.cause))

\* `if (this.context) await this.context.close()` of the catch clause.
CatchContext(l) ==
  IF lContext # 0 THEN [l EXCEPT !.pc = "catchContext", !.on = lContext]
                  ELSE AfterCatch(l)

\* An error thrown inside the try block of an attempt: the catch clause starts
\* with `if (this.page) await this.page.close()`.
Caught(l, cause) ==
  IF lPage # 0 THEN [l EXCEPT !.cause = cause, !.pc = "catchPage", !.on = lPage]
               ELSE CatchContext([l EXCEPT !.cause = cause])

\* The try block goes on with a call of a method of this.page that is awaited
\* at p; without a page the call throws, which leaves the try with cause.
OnLoginPage(l, p, cause) ==
  IF lPage = 0 THEN Caught(l, cause) ELSE [l EXCEPT !.pc = p, !.on = lPage]

\* The same for a method of this.context.
OnLoginContext(l, p) ==
  IF lContext = 0 THEN Caught(l, "typeError") ELSE [l EXCEPT !.pc = p, !.on = lContext]

\* The opening statements of an attempt are over, by the page or by an error.
Opened(l) ==
  [l EXCEPT !.attempts = l.attempts + 1,
            !.navT = -1, !.dialogT = -1, !.qrT = -1, !.humanT = -1]

\* The login call l returned on the cookie-replay + probe path of its first
\* attempt (what is remembered of the call before at the start of the next).
ReplayOnly(l) == l.res = "returned" /\ l.landing = "true" /\ l.attempts = 1

\* The login tool handler: `new AuthManager()` and `authManager.login()`.
StartLogin(total) ==
  /\ loginNo < MaxLogins
  /\ login.pc \in {"idle", "done"}
  /\ loginNo' = loginNo + 1
  /\ login' = [IdleLogin EXCEPT !.pc = "launch", !.total = total,
                                !.prevReplay = ReplayOnly(login),
                                !.store0 = store]
  /\ lBrowser' = 0
  /\ lContext' = 0
  /\ lPage' = 0
  /\ lBrowsers' = <<>>
  /\ lContexts' = <<>>
  /\ lPages' = <<>>
  /\ UNCHANGED store
  /\ UNCHANGED <<toolsVars, urlVars, manager>>

\* `this.browser = await chromium.launch(...)` resolves or rejects; then
\* retryCount = 0 and the first attempt calls this.browser.newContext().
LoginLaunch(ok) ==
  /\ login.pc = "launch"
  /\ IF ok
       THEN /\ lBrowsers' = Launch(lBrowsers)
            /\ lBrowser' = Len(lBrowsers) + 1
            /\ login' = [login EXCEPT !.pc = "newContext", !.on = Len(lBrowsers) + 1,
                                       !.launched = Len(lBrowsers) + 1]
       ELSE /\ login' = LoginThrows(login, Error("launchFailed"))
            /\ UNCHANGED <<lBrowsers, lBrowser>>
  /\ UNCHANGED <<lContext, lPage, loginNo, lContexts, lPages, store>>
  /\ UNCHANGED <<toolsVars, urlVars, manager>>

\* `this.context = await this.browser.newContext()` resolves or rejects; then
\* this.context.newPage() is called.
AttemptNewContext(ok) ==
  /\ login.pc = "newContext"
  /\ IF ok
       THEN /\ lContexts' = NewContext(lContexts, login.on)
            /\ lContext' = Len(lContexts) + 1
            /\ login' = [login EXCEPT !.pc = "newPage", !.on = Len(lContexts) + 1]
       ELSE /\ login' = Caught(Opened(login), "newContextFailed")
            /\ UNCHANGED <<lContexts, lContext>>
  /\ UNCHANGED <<lBrowser, lPage, loginNo, lBrowsers, lPages, store>>
  /\ UNCHANGED <<toolsVars, urlVars, manager>>

\* `this.page = await this.context.newPage()` resolves or rejects; then
\* cookieManager.loadCookies() is called.
AttemptNewPage(ok) ==
  /\ login.pc = "newPage"
  /\ IF ok /\ LoginContextUsable(login.on)
       THEN /\ lPages' = NewPage(lPages, lContexts[login.on].browser, login.on, 0)
            /\ lPage' = Len(lPages) + 1
            /\ login' = [Opened(login) EXCEPT !.pc = "loadCookies", !.on = 0]
       ELSE /\ login' = Caught(Opened(login), "newPageFailed")
            /\ UNCHANGED <<lPages, lPage>>
  /\ UNCHANGED <<lBrowser, lContext, loginNo, lBrowsers, lContexts, store>>
  /\ UNCHANGED <<toolsVars, urlVars, manager>>

\* `await this.page.goto(...)` is the next statement.
ToGoto(l) == OnLoginPage(l, "goto", "typeError")

\* `const cookies = await this.cookieManager.loadCookies()` resolves or
\* rejects; with cookies this.context.addCookies is called, else page.goto.
AttemptLoadCookies(ok) ==
  /\ login.pc = "loadCookies"
  /\ login' = IF ~ok THEN Caught(login, "loadCookiesFailed")
              ELSE IF HasCookies(store) THEN OnLoginContext(login, "addCookies")
              ELSE ToGoto(login)
  /\ UNCHANGED <<lBrowser, lContext, lPage, loginNo, lBrowsers, lContexts, lPages, store>>
  /\ UNCHANGED <<toolsVars, urlVars, manager>>

\* `await this.context.addCookies(cookies)` resolves or rejects.
AttemptAddCookies(ok) ==
  /\ login.pc = "addCookies"
  /\ login' = IF ok /\ LoginContextUsable(login.on) THEN ToGoto(login)
                                                    ELSE Caught(login, "addCookiesFailed")
  /\ UNCHANGED <<lBrowser, lContext, lPage, loginNo, lBrowsers, lContexts, lPages, store>>
  /\ UNCHANGED <<toolsVars, urlVars, manager>>

\* The wait for the login dialog is the next statement, inside a try of its
\* own whose catch throws the dialog error.
ToDialog(l) == OnLoginPage(l, "dialog", "dialogTimeout")

\* page.goto of the explore page, bounded by Math.min(10000, timeout / 3),
\* resolves or rejects; then the sidebar element is looked up.
AttemptGoto(ok) ==
  /\ login.pc = "goto"
  /\ LET l == [login EXCEPT !.navT = SubWaitThirds(login.total)]
     IN login' = IF ok /\ LoginPageUsable(login.on)
                   THEN OnLoginPage(l, "sidebar", "typeError")
                   ELSE Caught(l, "navigationFailed")
  /\ UNCHANGED <<lBrowser, lContext, lPage, loginNo, lBrowsers, lContexts, lPages, store>>
  /\ UNCHANGED <<toolsVars, urlVars, manager>>

SidebarOutcomes == {"absent", "found", "error"}

\* `const userSidebar = await this.page.$(...)` gives the element or null, or
\* rejects; with the element the identity probe is evaluated.
AttemptSidebar(o) ==
  /\ login.pc = "sidebar"
  /\ o \in SidebarOutcomes
  /\ login' =
       IF o = "error" \/ ~LoginPageUsable(login.on)
         THEN Caught([login EXCEPT !.landing = "error"], "probeError")
       ELSE IF o = "found" THEN OnLoginPage(login, "probe", "typeError")
       ELSE ToDialog([login EXCEPT !.landing = "absent"])
  /\ UNCHANGED <<lBrowser, lContext, lPage, loginNo, lBrowsers, lContexts, lPages, store>>
  /\ UNCHANGED <<toolsVars, urlVars, manager>>

\* Variant of AlreadyLoggedIn that never takes the early return.
NeverAlreadyLoggedIn(o) == FALSE

\* `if (isLoggedIn)` of the already-logged-in check.
AlreadyLoggedIn(o) == o = "true"

\* Variant of VerifyPasses that lets a negative probe through.
VerifyIgnoresProbe(o) == o \in {"true", "false"}

\* `if (!isLoggedIn) throw new Error('Login verification failed')`.
VerifyPasses(o) == o = "true"

\* `const newCookies = await this.context.cookies()` is the next statement.
ToCookies(l) == OnLoginContext(l, "cookies")

\* The identity probe on the landing page, page.evaluate, gives true or false
\* or rejects.
AttemptProbe(o) ==
  /\ login.pc = "probe"
  /\ o \in ProbeOutcomes
  /\ LET e == IF LoginPageUsable(login.on) THEN o ELSE "error"
         l == IF e = "true"
                THEN [login EXCEPT !.probeAt = login.retryCount + 1, !.landing = e]
                ELSE [login EXCEPT !.landing = e]
     IN login' = IF e = "error" THEN Caught(l, "probeError")
                 ELSE IF AlreadyLoggedIn(e) THEN ToCookies(l)
                 ELSE ToDialog(l)
  /\ UNCHANGED <<lBrowser, lContext, lPage, loginNo, lBrowsers, lContexts, lPages, store>>
  /\ UNCHANGED <<toolsVars, urlVars, manager>>

\* waitForSelector('.login-container') resolves or rejects; then the wait for
\* the QR code is made, inside a try of its own.
AttemptDialog(ok) ==
  /\ login.pc = "dialog"
  /\ LET l == [login EXCEPT !.dialogT = SubWaitThirds(login.total)]
     IN login' = IF ok /\ LoginPageUsable(login.on)
                   THEN OnLoginPage(l, "qr", "qrTimeout")
                   ELSE Caught(l, "dialogTimeout")
  /\ UNCHANGED <<lBrowser, lContext, lPage, loginNo, lBrowsers, lContexts, lPages, store>>
  /\ UNCHANGED <<toolsVars, urlVars, manager>>

\* waitForSelector('.qrcode-img') resolves or rejects; then the wait for the
\* user is made, inside a try of its own.
AttemptQr(ok) ==
  /\ login.pc = "qr"
  /\ LET l == [login EXCEPT !.qrT = SubWaitThirds(login.total)]
     IN login' = IF ok /\ LoginPageUsable(login.on)
                   THEN OnLoginPage(l, "human", "humanTimeout")
                   ELSE Caught(l, "qrTimeout")
  /\ UNCHANGED <<lBrowser, lContext, lPage, loginNo, lBrowsers, lContexts, lPages, store>>
  /\ UNCHANGED <<toolsVars, urlVars, manager>>

\* waitForSelector of the sidebar element, the user scanning the QR code,
\* resolves or rejects; then the identity probe is evaluated.
AttemptHuman(ok) ==
  /\ login.pc = "human"
  /\ LET l == [login EXCEPT !.humanT = HumanWait(login.total)]
     IN login' = IF ok /\ LoginPageUsable(login.on)
                   THEN OnLoginPage(l, "verify", "typeError")
                   ELSE Caught(l, "humanTimeout")
  /\ UNCHANGED <<lBrowser, lContext, lPage, loginNo, lBrowsers, lContexts, lPages, store>>
  /\ UNCHANGED <<toolsVars, urlVars, manager>>

\* The identity probe after the user's login gives true or false or rejects.
AttemptVerify(o) ==
  /\ login.pc = "verify"
  /\ o \in ProbeOutcomes
  /\ LET e == IF LoginPageUsable(login.on) THEN o ELSE "error"
         l == IF e = "true" THEN [login EXCEPT !.probeAt = login.retryCount + 1] ELSE login
     IN login' = IF e = "error" THEN Caught(l, "probeError")
                 ELSE IF VerifyPasses(e) THEN ToCookies(l)
                 ELSE Caught(l, "verificationFailed")
  /\ UNCHANGED <<lBrowser, lContext, lPage, loginNo, lBrowsers, lContexts, lPages, store>>
  /\ UNCHANGED <<toolsVars, urlVars, manager>>

\* `const newCookies = await this.context.cookies()` resolves with the cookies
\* of that context or rejects; then cookieManager.saveCookies is called.
AttemptCookies(ok) ==
  /\ login.pc = "cookies"
  /\ login' = IF ok /\ LoginContextUsable(login.on)
                THEN [login EXCEPT !.pc = "saveCookies", !.cookies = <<loginNo, login.on>>,
                                   !.on = 0]
                ELSE Caught(login, "cookiesFailed")
  /\ UNCHANGED <<lBrowser, lContext, lPage, loginNo, lBrowsers, lContexts, lPages, store>>
  /\ UNCHANGED <<toolsVars, urlVars, manager>>

\* CookieManager.saveCookies: the store holds the cookies given once it has
\* completed, and what it held before when it fails.
SaveCookies(st, cookies, ok) == IF ok THEN cookies ELSE st

\* Variant of Saved in which a statement after the save throws.
SavedThenThrows(l) == Caught([l EXCEPT !.savedAt = l.retryCount + 1], "afterSave")

\* saveCookies has completed: `return`.
Saved(l) == LoginReturns([l EXCEPT !.savedAt = l.retryCount + 1])

\* `await this.cookieManager.saveCookies(newCookies)` resolves or rejects.
AttemptSave(ok) ==
  /\ login.pc = "saveCookies"
  /\ store' = SaveCookies(store, login.cookies, ok)
  /\ login' = IF ok THEN Saved(login) ELSE Caught(login, "saveFailed")
  /\ UNCHANGED <<lBrowser, lContext, lPage, loginNo, lBrowsers, lContexts, lPages>>
  /\ UNCHANGED <<toolsVars, urlVars, manager>>

\* `await this.page.close()` of the catch clause resolves or rejects; a
\* rejection leaves login, else `if (this.context)` is next.
CatchClosePage(ok) ==
  /\ login.pc = "catchPage"
  /\ IF ok
       THEN /\ lPages' = PagesAfterPageClose(lPages, login.on)
            /\ login' = CatchContext(login)
       ELSE /\ login' = LoginThrows(login, Error("closeFailed"))
            /\ UNCHANGED lPages
  /\ UNCHANGED <<lBrowser, lContext, lPage, loginNo, lBrowsers, lContexts, store>>
  /\ UNCHANGED <<toolsVars, urlVars, manager>>

\* `await this.context.close()` of the catch clause resolves or rejects.
CatchCloseContext(ok) ==
  /\ login.pc = "catchContext"
  /\ IF ok
       THEN /\ lContexts' = ContextsAfterContextClose(lContexts, login.on)
            /\ lPages' = PagesAfterContextClose(lPages, login.on)
            /\ login' = AfterCatch(login)
       ELSE /\ login' = LoginThrows(login, Error("closeFailed"))
            /\ UNCHANGED <<lContexts, lPages>>
  /\ UNCHANGED <<lBrowser, lContext, lPage, loginNo, lBrowsers, store>>
  /\ UNCHANGED <<toolsVars, urlVars, manager>>

\* The fixed 2 s delay is over: the next attempt calls
\* this.browser.newContext(), which throws at once without a browser.
Backoff ==
  /\ login.pc = "backoff"
  /\ LET l == [login EXCEPT !.backoffs = login.backoffs + 1, !.landing = "none"]
     IN login' = IF lBrowser = 0 THEN Caught(Opened(l), "typeError")
                                 ELSE [l EXCEPT !.pc = "newContext", !.on = lBrowser]
  /\ UNCHANGED <<lBrowser, lContext, lPage, loginNo, lBrowsers, lContexts, lPages, store>>
  /\ UNCHANGED <<toolsVars, urlVars, manager>>

\* The last three statements of AuthManager.cleanup.
FieldsCleared ==
  /\ lPage' = 0
  /\ lContext' = 0
  /\ lBrowser' = 0

\* The login tool handler is over, with what login gave or with the error of
\* cleanup.
HandlerEnds(l) == [l EXCEPT !.pc = "done", !.hres = l.res, !.herr = l.err, !.on = 0]
HandlerThrows(l, e) == [l EXCEPT !.pc = "done", !.hres = "threw", !.herr = e, !.on = 0]

\* The finally clause of the login tool handler calls AuthManager.cleanup as
\* login ends, with this.page and this.context as login left them.  Its
\* `await this.page.close()` resolves or rejects; `if (this.context)` is next.
CleanupClosePage(ok) ==
  /\ login.pc = "finally"
  /\ lPage # 0
  /\ IF ~ok
       THEN /\ login' = HandlerThrows(login, Error("closeFailed"))
            /\ UNCHANGED <<lPage, lContext, lBrowser, lPages>>
       ELSE /\ lPages' = PagesAfterPageClose(lPages, lPage)
            /\ IF lContext # 0
                 THEN /\ login' = [login EXCEPT !.pc = "cleanupContext", !.on = lContext]
                      /\ UNCHANGED <<lPage, lContext, lBrowser>>
                 ELSE /\ login' = HandlerEnds(login)
                      /\ FieldsCleared
  /\ UNCHANGED <<loginNo, lBrowsers, lContexts, store>>
  /\ UNCHANGED <<toolsVars, urlVars, manager>>

\* The `await this.context.close()` of that cleanup resolves or rejects, after
\* the page was closed or where login left a context and no page; then the
\* fields are set to null.
CleanupCloseContext(ok) ==
  /\ login.pc \in {"finally", "cleanupContext"}
  /\ login.pc = "finally" => lPage = 0
  /\ lContext # 0
  /\ IF ok
       THEN /\ lContexts' = ContextsAfterContextClose(lContexts, lContext)
            /\ lPages' = PagesAfterContextClose(lPages, lContext)
            /\ login' = HandlerEnds(login)
            /\ FieldsCleared
       ELSE /\ login' = HandlerThrows(login, Error("closeFailed"))
            /\ UNCHANGED <<lPage, lContext, lBrowser, lContexts, lPages>>
  /\ UNCHANGED <<loginNo, lBrowsers, store>>
  /\ UNCHANGED <<toolsVars, urlVars, manager>>

\* That cleanup where login left neither page nor context: nothing is awaited.
CleanupNothingOpen ==
  /\ login.pc = "finally"
  /\ lPage = 0
  /\ lContext = 0
  /\ login' = HandlerEnds(login)
  /\ FieldsCleared
  /\ UNCHANGED <<loginNo, lBrowsers, lContexts, lPages, store>>
  /\ UNCHANGED <<toolsVars, urlVars, manager>>

\* One attempt of login: the resolution of one awaited operation each.
AttemptStep ==
  \/ \E b \in BOOLEAN : AttemptNewContext(b)
  \/ \E b \in BOOLEAN : AttemptNewPage(b)
  \/ \E b \in BOOLEAN : AttemptLoadCookies(b)
  \/ \E b \in BOOLEAN : AttemptAddCookies(b)
  \/ \E b \in BOOLEAN : AttemptGoto(b)
  \/ \E o \in SidebarOutcomes : AttemptSidebar(o)
  \/ \E o \in ProbeOutcomes : AttemptProbe(o)
  \/ \E b \in BOOLEAN : AttemptDialog(b)
  \/ \E b \in BOOLEAN : AttemptQr(b)
  \/ \E b \in BOOLEAN : AttemptHuman(b)
  \/ \E o \in ProbeOutcomes : AttemptVerify(o)
  \/ \E b \in BOOLEAN : AttemptCookies(b)
  \/ \E b \in BOOLEAN : AttemptSave(b)
  \/ \E b \in BOOLEAN : CatchClosePage(b)
  \/ \E b \in BOOLEAN : CatchCloseContext(b)
  \/ Backoff

NextLogin ==
  \/ \E t \in Totals : StartLogin(t)
  \/ \E b \in BOOLEAN : LoginLaunch(b)
  \/ AttemptStep
  \/ \E b \in BOOLEAN : CleanupClosePage(b)
  \/ \E b \in BOOLEAN : CleanupCloseContext(b)
  \/ CleanupNothingOpen

\* No login is running on the AuthManager.
NoLogin == login.pc \in {"idle", "finally"}

\* No getBrowser or cleanup call is in flight on the AuthManager; `on` is the
\* page or context the close of the cleanup call was called on.
IdleManager == [gets |-> 0, launching |-> 0, cleanups |-> 0, cleanup |-> "idle", on |-> 0]

\* AuthManager.getBrowser is called: `if (!this.browser)` is evaluated at
\* once; without a browser chromium.launch is called and awaited, with one the
\* handle is returned.
GetBrowser ==
  /\ manager.gets < MaxGets
  /\ manager' = [manager EXCEPT !.gets = manager.gets + 1,
                                !.launching = IF lBrowser = 0 THEN manager.launching + 1
                                                              ELSE manager.launching]
  /\ UNCHANGED <<login, lBrowser, lContext, lPage, loginNo, lBrowsers, lContexts, lPages, store>>
  /\ UNCHANGED <<toolsVars, urlVars>>

\* The chromium.launch of a getBrowser call resolves or rejects:
\* `this.browser = await chromium.launch(...)`.
GetBrowserLaunch(ok) ==
  /\ manager.launching > 0
  /\ manager' = [manager EXCEPT !.launching = manager.launching - 1]
  /\ IF ok
       THEN /\ lBrowsers' = Launch(lBrowsers)
            /\ lBrowser' = Len(lBrowsers) + 1
       ELSE UNCHANGED <<lBrowsers, lBrowser>>
  /\ UNCHANGED <<login, lContext, lPage, loginNo, lContexts, lPages, store>>
  /\ UNCHANGED <<toolsVars, urlVars>>

\* cleanup goes on with `if (this.context) await this.context.close()`, else
\* with the three assignments.
CleanupContext(m) ==
  IF lContext # 0 THEN /\ manager' = [m EXCEPT !.cleanup = "context", !.on = lContext]
                       /\ UNCHANGED <<lPage, lContext, lBrowser>>
                  ELSE /\ manager' = [m EXCEPT !.cleanup = "idle", !.on = 0]
                       /\ FieldsCleared

\* AuthManager.cleanup is called: `if (this.page) await this.page.close()`.
ManagerCleanup ==
  /\ manager.cleanup = "idle"
  /\ manager.cleanups < MaxCleanups
  /\ LET m == [manager EXCEPT !.cleanups = manager.cleanups + 1]
     IN IF lPage # 0
          THEN /\ manager' = [m EXCEPT !.cleanup = "page", !.on = lPage]
               /\ UNCHANGED <<lPage, lContext, lBrowser>>
          ELSE CleanupContext(m)
  /\ UNCHANGED <<login, loginNo, lBrowsers, lContexts, lPages, store>>
  /\ UNCHANGED <<toolsVars, urlVars>>

\* The page.close() of cleanup resolves or rejects.
ManagerClosePage(ok) ==
  /\ manager.cleanup = "page"
  /\ IF ok
       THEN /\ lPages' = PagesAfterPageClose(lPages, manager.on)
            /\ CleanupContext(manager)
       ELSE /\ manager' = [manager EXCEPT !.cleanup = "idle", !.on = 0]
            /\ UNCHANGED <<lPage, lContext, lBrowser, lPages>>
  /\ UNCHANGED <<login, loginNo, lBrowsers, lContexts, store>>
  /\ UNCHANGED <<toolsVars, urlVars>>

\* The context.close() of cleanup resolves or rejects; after it the fields are
\* set to null, the browser is not closed.
ManagerCloseContext(ok) ==
  /\ manager.cleanup = "context"
  /\ manager' = [manager EXCEPT !.cleanup = "idle", !.on = 0]
  /\ IF ok
       THEN /\ lContexts' = ContextsAfterContextClose(lContexts, manager.on)
            /\ lPages' = PagesAfterContextClose(lPages, manager.on)
            /\ FieldsCleared
       ELSE UNCHANGED <<lPage, lContext, lBrowser, lContexts, lPages>>
  /\ UNCHANGED <<login, loginNo, lBrowsers, store>>
  /\ UNCHANGED <<toolsVars, urlVars>>

\* The timeout of login where the caller passes none: `timeout: number = 60000`.
LoginDefaultTimeout == 60000

\* login called on the AuthManager that exists, while no other login of it is
\* running: its fields are as the calls before left them.
CallLogin(total) ==
  /\ loginNo < MaxManagerLogins
  /\ NoLogin
  /\ loginNo' = loginNo + 1
  /\ login' = [IdleLogin EXCEPT !.pc = "launch", !.total = total,
                                !.prevReplay = ReplayOnly(login),
                                !.store0 = store]
  /\ UNCHANGED <<lBrowser, lContext, lPage, lBrowsers, lContexts, lPages, store>>
  /\ UNCHANGED <<toolsVars, urlVars, manager>>

\* getBrowser, login and cleanup called on one AuthManager in any order and
\* while calls made before are pending; one login runs at a time.
NextAuthManager ==
  \/ GetBrowser
  \/ \E b \in BOOLEAN : GetBrowserLaunch(b)
  \/ ManagerCleanup
  \/ \E b \in BOOLEAN : ManagerClosePage(b)
  \/ \E b \in BOOLEAN : ManagerCloseContext(b)
  \/ CallLogin(LoginDefaultTimeout)
  \/ \E b \in BOOLEAN : LoginLaunch(b)
  \/ AttemptStep

\* What the cookie file holds when the server starts: nothing, or the cookies
\* a login saved before (login 0).
CookiesOnDisk == { <<0, 0>>, <<0, 1>> }

\* The server has started: `tools` is constructed, no call was made.
Started ==
  /\ \E env \in EnvTexts : \E arg \in ArgTexts : tTimeout = getConfiguredTimeout(env, arg)
  /\ tBrowser = 0
  /\ tPage = 0
  /\ amBrowser = 0
  /\ call = [s \in Slots |-> IdleCall]
  /\ callNo = 0
  /\ browsers = <<>>
  /\ pages = <<>>
  /\ store \in CookiesOnDisk
  /\ login = IdleLogin
  /\ lBrowser = 0
  /\ lContext = 0
  /\ lPage = 0
  /\ lBrowsers = <<>>
  /\ lContexts = <<>>
  /\ lPages = <<>>
  /\ loginNo = 0
  /\ manager = IdleManager

Init ==
  /\ Started
  /\ shareText = <<>>
  /\ extracted = <<>>

\* extractRedBookUrl is about to be applied to one of the share texts.
InitExtract ==
  /\ Started
  /\ shareText \in ShareTexts
  /\ extracted = <<>>

SpecWorkflow == Init /\ [][NextWorkflow]_vars

SpecLogin == Init /\ [][NextLogin]_vars

\* The login tool where every browser operation and wait completes or fails
\* within its bound: a step that can be taken is taken.
SpecLoginFair == Init /\ [][NextLogin]_vars /\ WF_vars(NextLogin)

\* The server was started without a timeout of its own.
InitDefault ==
  /\ Init
  /\ tTimeout = DEFAULT_TIMEOUT

\* Workflow calls whose handler may time out before the workflow is over.
SpecOverlap == InitDefault /\ [][NextOverlap]_vars

\* One AuthManager, its getBrowser, login and cleanup called in any order.
SpecAuthManager == InitDefault /\ [][NextAuthManager]_vars

\* extractRedBookUrl as a function of its argument.
SpecExtract == InitExtract /\ [][NextExtract]_vars

\* ------------------------------------------------------------- properties

\* The indices j..Len(outs) of the items whose outcome is in S, in order.
RECURSIVE ItemsWhere(_, _, _)
ItemsWhere(outs, S, j) ==
  IF j > Len(outs) THEN <<>>
  ELSE (IF outs[j] \in S THEN <<j>> ELSE <<>>) \o ItemsWhere(outs, S, j + 1)

SearchDone(s) == call[s].pc = "done" /\ call[s].kind = "search"

\* C1: after a workflow call has returned or thrown, also when it threw during
\* initialize, every page opened for that call has been closed.
C1_PagesClosedAfterCall ==
  \A s \in Slots :
    call[s].pc = "done" =>
      \A p \in DOMAIN pages : pages[p].call = call[s].no => pages[p].state = "closed"

\* C2: a call navigates to its extraction target only if the identity probe
\* evaluated true during that same call's initialize.
C2_NavigatesOnlyAfterOwnProbe ==
  \A s \in Slots : call[s].navigated => call[s].probed

\* C3: login makes at most 3 attempts, an error in an attempt leads to a retry
\* while fewer than 3 attempts were made, and a login that throws after its
\* attempts throws LoginFailed carrying the ceiling 3 and the last cause.
C3_LoginRetriesThenLoginFailed ==
  /\ login.attempts <= maxRetries
  /\ (login.res = "threw" /\ login.attempts >= 1) =>
       /\ login.attempts = maxRetries
       /\ login.err = [kind |-> "LoginFailed", retries |-> 3, cause |-> login.cause]

\* C4: in searchNotes no failure of item processing, the recovery after an
\* earlier error included, reaches the caller: once the items are listed, all
\* of the first min(found, limit) are processed and the call does not end with
\* an error of item processing.
C4_ItemFailuresNeverPropagate ==
  \A s \in Slots :
    /\ call[s].pending # "itemRecoveryFailed"
    /\ (SearchDone(s) /\ call[s].listed) =>
         /\ call[s].i = Min(call[s].found, call[s].limit)
         /\ call[s].err # "itemRecoveryFailed"

\* C5 as stated: the sequence searchNotes returns holds, in order, exactly the
\* processed items whose processing raised no error at any step.
C5_ResultIsItemsWithoutError ==
  \A s \in Slots :
    (SearchDone(s) /\ call[s].res = "returned") =>
      call[s].notes = ItemsWhere(call[s].outs, {"note", "null"}, 1)

\* C5 amended: the sequence searchNotes returns holds, in order, exactly the
\* processed items whose open, wait and extract steps completed and produced a
\* note; an item that throws in the later close/detach step stays in the
\* result, an item whose extraction yields null is left out.
C5_ResultIsExtractedItems ==
  \A s \in Slots :
    (SearchDone(s) /\ call[s].res = "returned") =>
      /\ call[s].notes = ItemsWhere(call[s].outs, {"note", "noteCloseFail"}, 1)
      /\ Len(call[s].outs) = call[s].i

C5_Witness ==
  \E s \in Slots :
    /\ SearchDone(s) /\ call[s].res = "returned"
    /\ call[s].outs = <<"extractFail", "noteCloseFail">>
    /\ call[s].notes = <<2>>

\* The call is in the try block of an item, past the evaluate: what it pushed
\* is the note of an item whose try block is not over yet.
PastEvaluate(s) == call[s].pc \in {"extracted", "closeButton", "closeClick", "detach"}

\* C6: searchNotes processes and returns at most min(limit, found) notes, never
\* more than the number of items found.
C6_AtMostMinLimitFound ==
  \A s \in Slots :
    call[s].kind = "search" =>
      /\ call[s].i <= call[s].limit
      /\ call[s].i <= call[s].found
      /\ Len(call[s].outs) <= call[s].limit
      /\ Len(call[s].outs) <= call[s].found
      /\ Len(call[s].notes) <= call[s].limit
      /\ Len(call[s].notes) <= call[s].found
      /\ Len(call[s].notes) <= Len(call[s].outs) + (IF PastEvaluate(s) THEN 1 ELSE 0)

C6_Witness ==
  \E s \in Slots :
    /\ SearchDone(s) /\ call[s].res = "returned"
    /\ call[s].found = 2 /\ call[s].limit = 1
    /\ Len(call[s].notes) = 1

\* C7: a workflow call leaves the browser process it used running.
C7_BrowserStaysOpen ==
  \A s \in Slots :
    (call[s].pc = "done" /\ call[s].used # 0) => browsers[call[s].used].state = "open"

\* C8: after the teardown of the session manager (AuthManager.cleanup in the
\* login tool handler) the browser process login launched is closed.
C8_TeardownClosesBrowser ==
  (login.pc = "done" /\ login.launched # 0) => lBrowsers[login.launched].state = "closed"

\* C9: the navigation, dialog and QR waits of an attempt each get
\* min(10000, total/3) (held in thirds of a millisecond), the human-paced wait
\* gets exactly total.
IsSubWait(x, total) ==
  /\ x <= 3 * 10000
  /\ x <= total
  /\ x = 3 * 10000 \/ x = total

C9_TimeoutBudget ==
  /\ login.navT # -1 => IsSubWait(login.navT, login.total)
  /\ login.dialogT # -1 => IsSubWait(login.dialogT, login.total)
  /\ login.qrT # -1 => IsSubWait(login.qrT, login.total)
  /\ login.humanT # -1 => login.humanT = login.total
  /\ login.pc \in {"sidebar", "probe"} => login.navT # -1
  /\ login.pc \in {"qr"} => login.dialogT # -1
  /\ login.pc \in {"human"} => login.qrT # -1
  /\ login.pc \in {"verify"} => login.humanT # -1

C9_Witness ==
  /\ login.pc = "verify"
  /\ login.total = 60000
  /\ login.navT = 30000 /\ login.dialogT = 30000 /\ login.qrT = 30000
  /\ login.humanT = 60000

\* C10: when login returns without error, the identity probe evaluated true in
\* the final attempt, and the cookies of that attempt's context were written to
\* the store after the probe; nothing is written before a true probe.
C10_ReturnImpliesProbeAndSave ==
  /\ login.res = "returned" =>
       /\ login.probeAt = login.retryCount + 1
       /\ login.savedAt = login.retryCount + 1
       /\ login.attempts = login.retryCount + 1
  /\ (login.pc = "finally" /\ login.res = "returned") =>
       /\ lContext # 0
       /\ lContexts[lContext].state = "open"
       /\ store = <<loginNo, lContext>>
  /\ login.savedAt # 0 => (login.probeAt = login.savedAt /\ login.res = "returned")
  /\ login.pc \in {"cookies", "saveCookies"} => login.probeAt = login.retryCount + 1
  /\ login.pc = "saveCookies" => login.cookies = <<loginNo, lContext>>

C10_Witness ==
  /\ login.pc = "finally"
  /\ login.res = "returned"
  /\ login.retryCount = 1
  /\ login.humanT # -1
  /\ store = <<loginNo, lContext>>

\* C11: when the identity probe succeeds on the landing page (the stored
\* cookies are valid), the attempt takes only the cookie-replay + probe path:
\* no wait for the login dialog, the QR code or the user; this holds for a
\* second login in sequence as for the first.
C11_ValidCookiesSkipDialog ==
  login.landing = "true" =>
    /\ login.pc \in {"cookies", "saveCookies", "catchPage", "catchContext", "backoff",
                     "finally", "cleanupContext", "done"}
    /\ login.dialogT = -1
    /\ login.qrT = -1
    /\ login.humanT = -1

C11_Witness ==
  /\ loginNo = 2
  /\ login.prevReplay
  /\ login.res = "returned"
  /\ login.landing = "true"
  /\ login.attempts = 1
  /\ login.dialogT = -1
  /\ login.qrT = -1
  /\ login.humanT = -1

\* C12: a close that fails during cleanup is swallowed: neither login (its
\* per-attempt cleanup), nor the login tool handler (AuthManager.cleanup), nor
\* a workflow (RedNoteTools.cleanup in its finally) ends with a close error,
\* and after a cleanup no context or page that cleanup holds is left open
\* because an earlier close failed.
C12_CloseErrorsSwallowed ==
  /\ login.err.kind # "closeFailed"
  /\ login.herr.kind # "closeFailed"
  /\ \A s \in Slots : call[s].err # "closeFailed"
  /\ login.pc = "done" => \A c \in DOMAIN lContexts : lContexts[c].state = "closed"

\* C13: once the timer of a handler has won the race, the RedNoteTools instance
\* that runs the abandoned workflow is not used again: no other call is in
\* flight on it while the abandoned call can still act on its browser and page.
C13_AbandonedInstanceNotReused ==
  \A s \in Slots : \A t \in Slots :
    (InFlight(s) /\ call[s].abandoned /\ t # s) => ~InFlight(t)

\* C14: a tool call that supplies no timeout runs with the default of the
\* instance (the value configured at start-up, environment override included);
\* a call that supplies one runs with exactly that value.
C14_DefaultIsInstanceTimeout ==
  \A s \in Slots :
    call[s].pc # "idle" =>
      call[s].timeout = IF call[s].arg = <<>> THEN tTimeout ELSE call[s].arg[1]

\* The errors whose message says that a bound was exceeded ("...超时 (N ms)").
TimeoutErrors ==
  {"initHomeTimeout", "verifyLoginTimeout", "searchNavTimeout", "openNoteTimeout",
   "openCommentsTimeout", "searchResultsTimeout", "commentsTimeout"}

\* C15: the timeout error is raised only by a step that exceeded its bound: a
\* navigation, wait or probe that fails for another reason is not reported with
\* the timeout error.
C15_TimeoutErrorOnlyOnTimeout ==
  \A s \in Slots :
    (call[s].err \in TimeoutErrors \/ call[s].pending \in TimeoutErrors) =>
      call[s].cause = "timeout"

\* What the two patterns describe: a short link is http:// or https://, the
\* host xhslink.com/ and one or more letters, digits or slashes; a canonical
\* link is http:// or https://, www. or nothing, xiaohongshu.com/ and one or
\* more characters that are neither white space nor a full-width comma.

\* The characters the tail of a short link is made of, one by one.
ShortTailChars ==
  {"a", "b", "c", "d", "e", "f", "g", "h", "i", "j", "k", "l", "m",
   "n", "o", "p", "q", "r", "s", "t", "u", "v", "w", "x", "y", "z",
   "A", "B", "C", "D", "E", "F", "G", "H", "I", "J", "K", "L", "M",
   "N", "O", "P", "Q", "R", "S", "T", "U", "V", "W", "X", "Y", "Z",
   "0", "1", "2", "3", "4", "5", "6", "7", "8", "9", "/"}

\* The characters that end a canonical link, one by one: the full-width
\* comma, space, tab, line feed, carriage return, form feed, vertical tab, the
\* no-break spaces, the Unicode spaces and separators, the byte order mark.
CanonicalStopChars ==
  {"U+FF0C", " ", "\t", "\n", "\r", "\f", "U+000B", "U+00A0", "U+202F", "U+FEFF",
   "U+1680", "U+2000", "U+2001", "U+2002", "U+2003", "U+2004", "U+2005", "U+2006",
   "U+2007", "U+2008", "U+2009", "U+200A", "U+205F", "U+3000", "U+2028", "U+2029"}

\* ch may stand in the tail of a link of the kind.
TailChar(kind, ch) ==
  IF kind = "short" THEN ch \in ShortTailChars ELSE ch \notin CanonicalStopChars

ShortPrefixes == { s \o ShortHost : s \in {HttpScheme, HttpsScheme} }
CanonicalPrefixes ==
  { s \o w \o CanonicalHost : s \in {HttpScheme, HttpsScheme}, w \in {<<>>, Www} }

\* t[j..e] is a link with one of the prefixes and a tail of the class.
IsLinkAt(t, j, e, prefixes, class) ==
  \E pre \in prefixes :
    /\ MatchesAt(t, j, pre)
    /\ e >= j + Len(pre)
    /\ \A k \in (j + Len(pre))..e : TailChar(class, t[k])

\* The occurrences <<j, e>> of such links in t.
Occurrences(t, prefixes, class) ==
  UNION { { <<j, e>> : e \in { x \in j..Len(t) : IsLinkAt(t, j, x, prefixes, class) } } :
          j \in { y \in 1..Len(t) : \E pre \in prefixes : MatchesAt(t, y, pre) } }

\* Of the occurrences occ in t the leftmost, and of those starting there the
\* longest.
FirstLink(t, occ) ==
  LET o == CHOOSE a \in occ :
             \A b \in occ : a[1] < b[1] \/ (a[1] = b[1] /\ a[2] >= b[2])
  IN SubSeq(t, o[1], o[2])

\* C17: extractRedBookUrl applies the two patterns in priority order: a text
\* that contains a short link gives that link (the first one), also when a
\* canonical link stands earlier or later in the text; otherwise a text that
\* contains a canonical link gives that link; otherwise the text is returned
\* unchanged.
C17_ShortLinkThenCanonicalThenInput ==
  extracted # <<>> =>
    LET short == Occurrences(shareText, ShortPrefixes, "short")
        canonical == Occurrences(shareText, CanonicalPrefixes, "canonical")
    IN extracted[1] = IF short # {} THEN FirstLink(shareText, short)
                      ELSE IF canonical # {} THEN FirstLink(shareText, canonical)
                      ELSE shareText

C17_Witness ==
  /\ shareText = Pieces[3] \o <<" ">> \o Pieces[1]
  /\ extracted = <<Pieces[1]>>

\* C16: the note getNoteContent returns carries the url the caller passed,
\* whatever extractRedBookUrl made of it and wherever the navigation ended.
C16_NoteUrlIsCallerUrl ==
  \A s \in Slots :
    (call[s].kind = "content" /\ call[s].pc \in {"cleanup", "done"}
       /\ (call[s].res = "returned" \/ (call[s].pc = "cleanup" /\ call[s].pending = ""))) =>
      call[s].noteUrl = call[s].url

C16_Witness ==
  \E s \in Slots :
    /\ call[s].kind = "content" /\ call[s].pc = "done" /\ call[s].res = "returned"
    /\ call[s].target # call[s].url
    /\ call[s].location # call[s].target
    /\ call[s].location # call[s].url
    /\ call[s].noteUrl = call[s].url

\* login is between its launch and its return or throw.
LoginRunning ==
  login.pc \in {"newContext", "newPage", "loadCookies", "addCookies", "goto", "sidebar",
                "probe", "dialog", "qr", "human", "verify", "cookies", "saveCookies",
                "catchPage", "catchContext", "backoff"}

OpenLoginContexts == { c \in DOMAIN lContexts : lContexts[c].state = "open" }
OpenLoginPages == { p \in DOMAIN lPages : lPages[p].state = "open" }

\* C18: when an attempt of login throws, its page and context are closed before
\* the next attempt creates its context, so at most one context and one page of
\* login are open at any time; the browser stays open while login runs; the
\* backoff is waited between attempts only, never after the last failed one.
C18_AttemptClosedBeforeNext ==
  /\ Cardinality(OpenLoginContexts) <= 1
  /\ Cardinality(OpenLoginPages) <= 1
  /\ login.pc \in {"newContext", "backoff"} =>
       (OpenLoginContexts = {} /\ OpenLoginPages = {})
  /\ login.pc = "newPage" => (OpenLoginContexts = {lContext} /\ OpenLoginPages = {})
  /\ LoginRunning => lBrowsers[login.launched].state = "open"
  /\ login.backoffs <= maxRetries - 1
  /\ login.attempts >= 1 =>
       login.backoffs = IF login.pc \in {"newContext", "newPage"} THEN login.attempts
                                                                 ELSE login.attempts - 1
  /\ login.err.kind = "LoginFailed" =>
       (login.attempts = maxRetries /\ login.backoffs = maxRetries - 1)

C18_Witness ==
  /\ login.pc = "goto"
  /\ login.attempts = 2
  /\ login.backoffs = 1
  /\ Len(lContexts) = 2
  /\ lContexts[1].state = "closed"
  /\ lContexts[2].state = "open"
  /\ OpenLoginPages = {Len(lPages)}
  /\ lBrowsers[login.launched].state = "open"

\* C19: the browser is a singleton of the AuthManager: whatever sequence of
\* getBrowser and login calls it receives, at most one browser process that it
\* launched is running.
C19_OneBrowserPerAuthManager ==
  Cardinality({ b \in DOMAIN lBrowsers : lBrowsers[b].state = "open" }) <= 1

\* C20: a workflow call that follows a completed call obtains an open browser:
\* initialize never opens a page on a browser that an earlier cleanup closed.
C20_InitializeGetsOpenBrowser ==
  \A s \in Slots :
    /\ call[s].pc = "newPage" => browsers[call[s].used].state = "open"
    /\ call[s].err # "browserClosed"

\* An operation of the call is pending on a page, the page call[s].on.
OnPage(s) ==
  call[s].pc \in {"addCookies", "gotoHome", "probe", "nav", "wait", "list", "extract",
                  "item", "container", "evaluate", "closeButton", "closeClick",
                  "detach", "recover", "recoverClick", "recoverDetach"}

\* C21: a workflow call makes its page operations on a page that was opened
\* during that same call; no page is used by two calls of the instance.
C21_CallUsesItsOwnPage ==
  \A s \in Slots :
    OnPage(s) => (call[s].on # 0 /\ pages[call[s].on].call = call[s].no)

\* C22: a login call that ends by throwing leaves the credential store as it
\* was when the call started; the store is written only by a call that returns,
\* in the attempt whose identity probe evaluated true.
C22_ThrowLeavesStoreUnchanged ==
  /\ login.res = "threw" => store = login.store0
  /\ (login.pc # "idle" /\ store # login.store0) =>
       /\ login.res = "returned"
       /\ login.savedAt = login.retryCount + 1
       /\ login.probeAt = login.savedAt
       /\ store[1] = loginNo

C22_Witness ==
  /\ loginNo = 2
  /\ login.res = "threw"
  /\ login.err = LoginFailed("verificationFailed")
  /\ login.humanT # -1
  /\ store[1] = 1
  /\ store = login.store0

\* login has returned or thrown.
LoginOver == login.pc \in {"finally", "done"}

\* login is in the try block or in the catch clause of an attempt.
InAttempt(l) == l.pc \notin {"idle", "launch", "backoff", "finally", "cleanupContext", "done"}

\* An attempt ends without login returning: it has failed.
AttemptFails == InAttempt(login) /\ ~InAttempt(login') /\ login'.res # "returned"

\* When an attempt has failed, the counter is one higher.
CounterIncreases == AttemptFails => login'.retryCount = login.retryCount + 1

\* login makes at most maxRetries attempts and waits at most maxRetries - 1 times.
AttemptsBounded ==
  /\ login.attempts <= maxRetries
  /\ login.backoffs <= maxRetries - 1
  /\ login.retryCount <= maxRetries

\* login, once called, returns or throws.
LoginTerminates == (login.pc = "launch") ~> LoginOver

\* C23: when every browser operation and wait completes or fails within its
\* bound, login terminates: it returns or throws after at most 3 attempts and
\* at most 2 backoff delays, and the attempt counter increases by one on every
\* failed attempt.
C23_LoginTerminatesWithinRetries ==
  /\ []AttemptsBounded
  /\ [][CounterIncreases]_vars
  /\ LoginTerminates

\* C24: the 'Page not initialized' guard is never taken: whenever initialize
\* has returned normally the page of the instance is set, and no call ends with
\* that error.
C24_PageSetAfterInitialize ==
  \A s \in Slots :
    /\ call[s].pc = "guard" => call[s].on # 0
    /\ call[s].err # "PageNotInitialized"

====
